---- MODULE Spec2Model ----
(***************************************************************************)
(* python-logging-loki: the delivery path of LokiEmitter / LokiHandler /   *)
(* LokiQueueHandler as a state machine.                                    *)
(*                                                                         *)
(* Three specifications share the emitter and the handler:                 *)
(*   Spec   application threads call LokiHandler.emit, and through it      *)
(*          LokiEmitter.__call__, in any interleaving; the transport may   *)
(*          log through the handler from inside a POST (a re-entrant       *)
(*          call on the posting thread).                                   *)
(*   SpecQ  application threads log through LokiQueueHandler; the          *)
(*          QueueListener thread dequeues and calls LokiHandler.emit.      *)
(*   SpecQF SpecQ with the listener thread scheduled fairly, for what the  *)
(*          listener eventually does with every queued record.             *)
(* Two more look at what is computed rather than at the interleaving:      *)
(*   SpecL  format_label applied to any short raw label name.              *)
(*   SpecP  LokiHandler(...) constructed with any of a set of arguments,   *)
(*          then given records one call at a time: the payload, the        *)
(*          session and the request of every call.                         *)
(* Every thread has a call stack of frames; a step acts on the top frame.  *)
(* A frame that has finished stays on the stack, at pc "returned" or       *)
(* "raised", until control is back in its caller (Return).                 *)
(***************************************************************************)
EXTENDS Integers, Sequences, FiniteSets, TLC

\* ---------------------------------------------------------------- bounds
NThreads == 2
MaxRecords == 3
MaxDepth == 2
\* the longest raw label name tried, and how often format_label is applied
MaxLen == 3
MaxApply == 2
\* the number of records given to one handler
MaxEmits == 5
\* the producer threads of the run in which the listener is kept running
NProducers == 1

\* ------------------------------------------------------------- constants
\* const.success_response_code
success_response_code == 204
\* resp.status_code is None (a response without a status)
NoStatus == 0
\* the status codes the endpoint answers with in the model
StatusCodes == {NoStatus, success_response_code, 500}

\* The QueueListener thread and the application threads.
Worker == 0
Threads == 1..NThreads
AllThreads == {Worker} \cup Threads

\* What a record carries in its `tags` attribute:
\*   plain    no tags, or a mapping from strings to plain values
\*   badtags  `tags` is not a mapping, or holds a callable that raises
\*   badkey   a mapping with a key that is not a string
RecordKinds == {"plain", "badtags", "badkey"}

VARIABLES
  lock,       \* LokiEmitter._lock is held
  session,    \* LokiEmitter._session: 0 (None) or the id of a session object
  closes,     \* closes[s]: how often session object s had close() called
  stack,      \* stack[t]: the call stack of thread t, innermost frame last
  nrec,       \* the number of log records created so far
  queue,      \* the Queue shared by LokiQueueHandler and its QueueListener
  pend,       \* pend[t]: the record thread t has prepared and not yet enqueued
  enqd,       \* the records in the order they were enqueued (history)
  started,    \* the records in the order the listener handed them to emit (history)
  hClosed,    \* close() of the handler has returned
  atClose,    \* the records that were in the queue when close() was called
  workerAlive, \* the QueueListener thread is running
  label,      \* the raw label name given to format_label
  out,        \* out[i]: format_label applied i times to label
  args,       \* the arguments LokiHandler(...) is constructed with
  handler,    \* the LokiHandler object and the emitter it owns
  fed,        \* the number of records given to the handler or emitter
  nposts,     \* the number of session.post calls made
  last        \* the latest call: its record, its request, how it ended

\* The delivery path (Spec, SpecQ), and the construction of a handler and the
\* content of what it sends (SpecL, SpecP).
dvars == <<lock, session, closes, stack, nrec, queue, pend, enqd, started,
           hClosed, atClose, workerAlive>>
pvars == <<label, out, args, handler, fed, nposts, last>>
vars == <<dvars, pvars>>

\* ------------------------------------------------------------- helpers
Depth(t) == Len(stack[t])
Top(t) == stack[t][Len(stack[t])]
At(t, p) == Depth(t) > 0 /\ Top(t).pc = p

\* A thread that is in no call. Idle application threads are interchangeable
\* (they hold no state), so the next call is made by the lowest idle one.
Idle(t) == Len(stack[t]) = 0 /\ pend[t].id = 0
FirstIdle(t) == Idle(t) /\ \A u \in Threads : Idle(u) => t <= u

\* A log record: its identity and what its tags are.
Record(r, k) == [id |-> r, kind |-> k]
NoRecord == [id |-> 0, kind |-> "plain"]

\* A frame of LokiHandler.emit and the call of the emitter it makes: where
\* it is, and what it has seen so far.
\*   exc    the exception in flight inside LokiEmitter.__call__
\*   res    how LokiEmitter.__call__ ended: dropped / ok / the exception
\*   got    what session.post gave: a status (code) or an exception
\*   posts  the POSTs this call made; hooks: its calls of handleError
\*   sess   the session object the POST went to
NewFrame(r, k) ==
  [pc |-> "acquire", rec |-> r, kind |-> k, sess |-> 0,
   exc |-> "none", res |-> "none", got |-> "none", code |-> NoStatus,
   posts |-> 0, hooks |-> 0]

PopFrame(s) == SubSeq(s, 1, Len(s) - 1)

\* The stack of a thread once its innermost, finished frame has handed
\* control back: a frame that raised raises into its caller frame, which is
\* inside session.post (the transport logged through the handler), so that
\* POST ends with the exception; with no caller frame the exception reaches
\* the code that called emit.
Unwind(s) ==
  IF s[Len(s)].pc = "raised" /\ Len(s) > 1
    THEN [PopFrame(s) EXCEPT ![Len(s) - 1].pc = "finally",
                             ![Len(s) - 1].exc = "Exception",
                             ![Len(s) - 1].got = "raised"]
    ELSE PopFrame(s)

\* TagMixin.prepare: `self.tags | record.tags` raises TypeError when the
\* record's tags are not a mapping; a callable value is invoked and may raise.
PrepareRaises(k) == k = "badtags"

\* LokiEmitter.build_payload -> build_tags -> format_label(tag_name): a tag
\* name that is not a string has no `replace`.
BuildRaises(k) == k = "badkey"

\* (variant: any status below 400, a missing one included, counts as success)
IsSuccess_Below400(c) == c < 400

\* resp.status_code != self.success_response_code
IsSuccess(c) == c = success_response_code

\* (variant: the guard is not consulted and every call goes on)
TryLock_Always(l) == TRUE

\* self._lock.acquire(blocking=False): the result
TryLock(l) == ~l

\* ------------------------------------------------------- label names
\* A label or tag name is a string: here a sequence of characters. The raw
\* names tried are all strings of at most MaxLen characters of LabelChars,
\* which has allowed characters, every character format_label replaces, and
\* one character ("!") that is neither.
LabelChars == {"a", "1", "_", "'", "\"", " ", ".", "-", "!"}
Strings(n) == UNION {[1..k -> LabelChars] : k \in 0..n}

\* const.label_allowed_chars: string.ascii_letters + string.digits + "_"
label_allowed_chars ==
  {"a", "b", "c", "d", "e", "f", "g", "h", "i", "j", "k", "l", "m",
   "n", "o", "p", "q", "r", "s", "t", "u", "v", "w", "x", "y", "z",
   "A", "B", "C", "D", "E", "F", "G", "H", "I", "J", "K", "L", "M",
   "N", "O", "P", "Q", "R", "S", "T", "U", "V", "W", "X", "Y", "Z",
   "0", "1", "2", "3", "4", "5", "6", "7", "8", "9", "_"}

\* (variant: underscores are stripped first)
label_replace_with_StripUnderscore ==
  << <<"_", <<>>>>, <<"'", <<>>>>, <<"\"", <<>>>>, <<" ", <<"_">>>>,
     <<".", <<"_">>>>, <<"-", <<"_">>>> >>

\* const.label_replace_with: the pairs (char_from, char_to), in order
label_replace_with ==
  << <<"'", <<>>>>, <<"\"", <<>>>>, <<" ", <<"_">>>>, <<".", <<"_">>>>,
     <<"-", <<"_">>>> >>

\* str.replace(char_from, char_to) for a one-character char_from
RECURSIVE Replace(_, _, _)
Replace(s, char_from, char_to) ==
  IF s = <<>> THEN <<>>
  ELSE (IF Head(s) = char_from THEN char_to ELSE <<Head(s)>>)
         \o Replace(Tail(s), char_from, char_to)

\* for char_from, char_to in self.label_replace_with:
\*     label = label.replace(char_from, char_to)
\* from the i-th pair on
RECURSIVE ReplaceFrom(_, _)
ReplaceFrom(lbl, i) ==
  IF i > Len(label_replace_with) THEN lbl
  ELSE ReplaceFrom(Replace(lbl, label_replace_with[i][1],
                           label_replace_with[i][2]), i + 1)

\* (variant: the characters that are not allowed are kept)
format_label_NoFilter(lbl) == ReplaceFrom(lbl, 1)

\* LokiEmitter.format_label
format_label(lbl) ==
  SelectSeq(ReplaceFrom(lbl, 1), LAMBDA c : c \in label_allowed_chars)

\* ------------------------------------------------------- python values
\* None; a value is a token (a string standing for the Python object).
NoneValue == "None"
\* {} as the value of a parameter that is not a tag mapping
EmptyDict == "{}"

\* A dict: its items in insertion order, each <<key, value>>, keys unique.
DictKeys(d) == {d[i][1] : i \in 1..Len(d)}
DictGet(d, k) == d[CHOOSE i \in 1..Len(d) : d[i][1] = k][2]
\* d[k] = v
DictSet(d, k, v) ==
  IF k \in DictKeys(d)
    THEN [i \in 1..Len(d) |-> IF d[i][1] = k THEN <<k, v>> ELSE d[i]]
    ELSE Append(d, <<k, v>>)
\* a | b
RECURSIVE DictUnion(_, _)
DictUnion(a, b) ==
  IF b = <<>> THEN a
  ELSE DictUnion(DictSet(a, b[1][1], b[1][2]), Tail(b))

\* The state of a handler that has not been constructed, of a session
\* attribute that is None (id 0; a session object has id 1), of a request
\* that was not made.
NoSession == [id |-> 0, auth |-> NoneValue]
NoEmitter ==
  [cls |-> "none", tags |-> <<>>, headers |-> EmptyDict, auth |-> NoneValue,
   session |-> NoSession]
NoHandler == [state |-> "none", tags |-> <<>>, emitter |-> NoEmitter]
NoArgs == [version |-> NoneValue, tags |-> <<>>, auth |-> NoneValue]
NoPayload == [labels |-> <<>>, entries |-> <<>>]
NoRequest == [json |-> NoPayload, headers |-> EmptyDict, auth |-> NoneValue]
NoCall ==
  [rec |-> 0, tags |-> [is |-> "absent", items |-> <<>>], via |-> "none",
   outcome |-> NoStatus, result |-> "none", hooks |-> 0, posted |-> FALSE,
   request |-> NoRequest]

\* The delivery path before any call.
InitDelivery ==
  /\ lock = FALSE
  /\ session = 0
  /\ closes = <<>>
  /\ stack = [t \in AllThreads |-> <<>>]
  /\ nrec = 0
  /\ queue = <<>>
  /\ pend = [t \in AllThreads |-> NoRecord]
  /\ enqd = <<>>
  /\ started = <<>>
  /\ hClosed = FALSE
  /\ atClose = {}
  /\ workerAlive = TRUE

\* No label is being formatted; no handler is being looked at.
NoLabel == label = <<>> /\ out = <<>>
NoContent ==
  /\ args = NoArgs
  /\ handler = NoHandler
  /\ fed = 0
  /\ nposts = 0
  /\ last = NoCall

Init == InitDelivery /\ NoLabel /\ NoContent

\* ------------------------------------------------- LokiHandler.emit entry
\* The frame of LokiHandler.emit(record) after its first statement,
\* `record = self.prepare(record)`, which runs before the try block: what
\* prepare raises leaves emit; otherwise the emitter is called.
EmitFrame(r, k) ==
  IF PrepareRaises(k) THEN [NewFrame(r, k) EXCEPT !.pc = "raised"]
  ELSE NewFrame(r, k)

\* An application thread calls handler.emit(record).
Emit(t, k) ==
  /\ FirstIdle(t)
  /\ nrec < MaxRecords
  /\ stack' = [stack EXCEPT ![t] = <<EmitFrame(nrec + 1, k)>>]
  /\ nrec' = nrec + 1
  /\ UNCHANGED <<pvars, lock, session, closes, queue, pend, enqd, started,
                 hClosed, atClose, workerAlive>>

\* The transport (urllib3) logs a record through the handler from inside
\* session.post, on the thread that is posting: a re-entrant emit.
NestedEmit(t, k) ==
  /\ At(t, "post")
  /\ Depth(t) < MaxDepth
  /\ nrec < MaxRecords
  /\ stack' = [stack EXCEPT ![t] = Append(@, EmitFrame(nrec + 1, k))]
  /\ nrec' = nrec + 1
  /\ UNCHANGED <<pvars, lock, session, closes, queue, pend, enqd, started,
                 hClosed, atClose, workerAlive>>

\* --------------------------------------------------- LokiEmitter.__call__
\* (variant: self._lock.acquire() blocks until the guard is free)
Acquire_Blocking(t) ==
  /\ At(t, "acquire")
  /\ ~lock
  /\ lock' = TRUE
  /\ stack' = IF BuildRaises(Top(t).kind)
                THEN [stack EXCEPT ![t][Depth(t)].pc = "finally",
                                   ![t][Depth(t)].exc = "Exception"]
                ELSE [stack EXCEPT ![t][Depth(t)].pc = "session"]
  /\ UNCHANGED <<pvars, session, closes, nrec, queue, pend, enqd, started,
                 hClosed, atClose, workerAlive>>

\* if not self._lock.acquire(blocking=False): return
\* try: payload = self.build_payload(record, line)
Acquire(t) ==
  /\ At(t, "acquire")
  /\ IF TryLock(lock)
       THEN /\ lock' = TRUE
            /\ stack' = IF BuildRaises(Top(t).kind)
                          THEN [stack EXCEPT ![t][Depth(t)].pc = "finally",
                                             ![t][Depth(t)].exc = "Exception"]
                          ELSE [stack EXCEPT ![t][Depth(t)].pc = "session"]
       ELSE /\ UNCHANGED lock
            /\ stack' = [stack EXCEPT ![t][Depth(t)].pc = "returned",
                                      ![t][Depth(t)].res = "dropped"]
  /\ UNCHANGED <<pvars, session, closes, nrec, queue, pend, enqd, started,
                 hClosed, atClose, workerAlive>>

\* property session: if self._session is None: self._session = session_class()
SessionCreate(t) ==
  /\ At(t, "session")
  /\ IF session = 0
       THEN /\ session' = Len(closes) + 1
            /\ closes' = Append(closes, 0)
       ELSE UNCHANGED <<session, closes>>
  /\ stack' = [stack EXCEPT ![t][Depth(t)].pc = "sessret"]
  /\ UNCHANGED <<pvars, lock, nrec, queue, pend, enqd, started, hClosed,
                 atClose, workerAlive>>

\* property session: return self._session, and the call of its post(): the
\* attribute is read again, and None has no post.
SessionReturn(t) ==
  /\ At(t, "sessret")
  /\ stack' = IF session = 0
                THEN [stack EXCEPT ![t][Depth(t)].pc = "finally",
                                   ![t][Depth(t)].exc = "Exception"]
                ELSE [stack EXCEPT ![t][Depth(t)].pc = "post",
                                   ![t][Depth(t)].sess = session,
                                   ![t][Depth(t)].posts = @ + 1]
  /\ UNCHANGED <<pvars, lock, session, closes, nrec, queue, pend, enqd,
                 started, hClosed, atClose, workerAlive>>

\* session.post returns a response with status code c; a code other than the
\* success code raises ValueError.
PostReturns(t, c) ==
  /\ At(t, "post")
  /\ stack' = [stack EXCEPT ![t][Depth(t)].pc = "finally",
                            ![t][Depth(t)].got = "status",
                            ![t][Depth(t)].code = c,
                            ![t][Depth(t)].exc =
                               IF IsSuccess(c) THEN "none" ELSE "ValueError"]
  /\ UNCHANGED <<pvars, lock, session, closes, nrec, queue, pend, enqd,
                 started, hClosed, atClose, workerAlive>>

\* session.post raises (connection refused, timeout, ...).
PostRaises(t) ==
  /\ At(t, "post")
  /\ stack' = [stack EXCEPT ![t][Depth(t)].pc = "finally",
                            ![t][Depth(t)].got = "raised",
                            ![t][Depth(t)].exc = "Exception"]
  /\ UNCHANGED <<pvars, lock, session, closes, nrec, queue, pend, enqd,
                 started, hClosed, atClose, workerAlive>>

\* (variant: the guard is released only when the call ends without an
\* exception: release() after the try block instead of in finally)
Finally_KeepsGuardOnError(t) ==
  /\ At(t, "finally")
  /\ lock' = (Top(t).exc # "none")
  /\ LET f == Top(t)
     IN stack' =
          IF f.exc = "none"
            THEN [stack EXCEPT ![t][Depth(t)].pc = "returned",
                               ![t][Depth(t)].res = "ok"]
          ELSE [stack EXCEPT ![t][Depth(t)].pc = "close1",
                             ![t][Depth(t)].res = f.exc,
                             ![t][Depth(t)].hooks = @ + 1]
  /\ UNCHANGED <<pvars, session, closes, nrec, queue, pend, enqd, started,
                 hClosed, atClose, workerAlive>>

\* finally: self._lock.release(); then __call__ returns, or raises into
\* LokiHandler.emit: `except Exception: self.handleError(record)`.
Finally(t) ==
  /\ At(t, "finally")
  /\ lock' = FALSE
  /\ LET f == Top(t)
     IN stack' =
          IF f.exc = "none"
            THEN [stack EXCEPT ![t][Depth(t)].pc = "returned",
                               ![t][Depth(t)].res = "ok"]
          ELSE [stack EXCEPT ![t][Depth(t)].pc = "close1",
                             ![t][Depth(t)].res = f.exc,
                             ![t][Depth(t)].hooks = @ + 1]
  /\ UNCHANGED <<pvars, session, closes, nrec, queue, pend, enqd, started,
                 hClosed, atClose, workerAlive>>

\* ------------------------- LokiHandler.handleError -> LokiEmitter.close
\* if self._session is not None: ...; with no session close() does nothing,
\* super().handleError(record) reports to stderr, and emit returns.
Close1(t) ==
  /\ At(t, "close1")
  /\ stack' = [stack EXCEPT ![t][Depth(t)].pc =
                               IF session # 0 THEN "close2" ELSE "returned"]
  /\ UNCHANGED <<pvars, lock, session, closes, nrec, queue, pend, enqd,
                 started, hClosed, atClose, workerAlive>>

\* self._session.close(): the attribute is read again; when another thread
\* has set it to None meanwhile, AttributeError leaves handleError and emit.
Close2(t) ==
  /\ At(t, "close2")
  /\ IF session = 0
       THEN /\ stack' = [stack EXCEPT ![t][Depth(t)].pc = "raised"]
            /\ UNCHANGED closes
       ELSE /\ closes' = [closes EXCEPT ![session] = @ + 1]
            /\ stack' = [stack EXCEPT ![t][Depth(t)].pc = "close3"]
  /\ UNCHANGED <<pvars, lock, session, nrec, queue, pend, enqd, started,
                 hClosed, atClose, workerAlive>>

\* (variant: after the session is reset the record is sent again)
Close3_Retry(t) ==
  /\ At(t, "close3")
  /\ session' = 0
  /\ stack' = [stack EXCEPT ![t][Depth(t)].pc = "acquire",
                            ![t][Depth(t)].exc = "none"]
  /\ UNCHANGED <<pvars, lock, closes, nrec, queue, pend, enqd, started,
                 hClosed, atClose, workerAlive>>

\* (variant: handleError lets the exception go on after the session is
\* reset, so that it leaves emit)
Close3_Reraise(t) ==
  /\ At(t, "close3")
  /\ session' = 0
  /\ stack' = [stack EXCEPT ![t][Depth(t)].pc = "raised"]
  /\ UNCHANGED <<pvars, lock, closes, nrec, queue, pend, enqd, started,
                 hClosed, atClose, workerAlive>>

\* self._session = None; then super().handleError(record) reports to stderr,
\* and emit returns.
Close3(t) ==
  /\ At(t, "close3")
  /\ session' = 0
  /\ stack' = [stack EXCEPT ![t][Depth(t)].pc = "returned"]
  /\ UNCHANGED <<pvars, lock, closes, nrec, queue, pend, enqd, started,
                 hClosed, atClose, workerAlive>>

\* Control is back in the caller of emit. An exception
\* that leaves LokiHandler.emit on the listener thread leaves
\* QueueListener._monitor too, and the thread ends.
Return(t) ==
  /\ Depth(t) > 0
  /\ Top(t).pc \in {"returned", "raised"}
  /\ stack' = [stack EXCEPT ![t] = Unwind(stack[t])]
  /\ workerAlive' = IF t = Worker /\ Depth(t) = 1 /\ Top(t).pc = "raised"
                      THEN FALSE ELSE workerAlive
  /\ UNCHANGED <<pvars, lock, session, closes, nrec, queue, pend, enqd,
                 started, hClosed, atClose>>

\* ------------------------------------------------------ LokiQueueHandler
\* QueueHandler.emit, first half: self.prepare(record) (TagMixin.prepare over
\* QueueHandler.prepare) inside try; what it raises goes to handleError of
\* logging.Handler and the record is not enqueued.
Log(t, k) ==
  /\ FirstIdle(t)
  /\ nrec < MaxRecords
  /\ pend' = IF PrepareRaises(k) THEN pend
             ELSE [pend EXCEPT ![t] = Record(nrec + 1, k)]
  /\ nrec' = nrec + 1
  /\ UNCHANGED <<pvars, lock, session, closes, stack, queue, enqd, started,
                 hClosed, atClose, workerAlive>>

\* (variant: the handler delivers on the thread that logged, as LokiHandler
\* does, instead of enqueuing)
Enqueue_Sync(t) ==
  /\ pend[t] # NoRecord
  /\ stack' = [stack EXCEPT ![t] = <<EmitFrame(pend[t].id, pend[t].kind)>>]
  /\ pend' = [pend EXCEPT ![t] = NoRecord]
  /\ UNCHANGED <<pvars, lock, session, closes, nrec, queue, enqd, started,
                 hClosed, atClose, workerAlive>>

\* QueueHandler.emit, second half: self.enqueue(record) -> queue.put_nowait.
Enqueue(t) ==
  /\ pend[t] # NoRecord
  /\ queue' = Append(queue, pend[t])
  /\ enqd' = Append(enqd, pend[t].id)
  /\ pend' = [pend EXCEPT ![t] = NoRecord]
  /\ UNCHANGED <<pvars, lock, session, closes, stack, nrec, started, hClosed,
                 atClose, workerAlive>>

\* (variant: the newest item is taken first)
QueueGet_Lifo(q) == <<q[Len(q)], SubSeq(q, 1, Len(q) - 1)>>

\* queue.get(): the item taken and the queue left.
QueueGet(q) == <<Head(q), Tail(q)>>

\* QueueListener._monitor: record = self.dequeue(True); self.handle(record)
\* -> LokiHandler.handle -> LokiHandler.emit.
Dequeue ==
  /\ workerAlive
  /\ Depth(Worker) = 0
  /\ queue # <<>>
  /\ LET g == QueueGet(queue)
     IN /\ queue' = g[2]
        /\ started' = Append(started, g[1].id)
        /\ stack' = [stack EXCEPT ![Worker] = <<EmitFrame(g[1].id, g[1].kind)>>]
  /\ UNCHANGED <<pvars, lock, session, closes, nrec, pend, enqd, hClosed,
                 atClose, workerAlive>>

\* The transport logs from inside session.post on the listener thread; the
\* record goes through LokiQueueHandler.emit like any other.
TransportLog(k) ==
  /\ At(Worker, "post")
  /\ nrec < MaxRecords
  /\ IF PrepareRaises(k)
       THEN UNCHANGED <<queue, enqd>>
       ELSE /\ queue' = Append(queue, Record(nrec + 1, k))
            /\ enqd' = Append(enqd, nrec + 1)
  /\ nrec' = nrec + 1
  /\ UNCHANGED <<pvars, lock, session, closes, stack, pend, started, hClosed,
                 atClose, workerAlive>>

\* close() of LokiQueueHandler (and of LokiHandler): neither class defines
\* it, so it is logging.Handler.close, which removes the handler from
\* logging's registry and touches neither the emitter, the queue nor the
\* listener.
HandlerClose ==
  /\ ~hClosed
  /\ hClosed' = TRUE
  /\ atClose' = {queue[i].id : i \in 1..Len(queue)}
  /\ UNCHANGED <<pvars, lock, session, closes, stack, nrec, queue, pend, enqd,
                 started, workerAlive>>

\* ------------------------------------------------------- specifications
Step(t) ==
  \/ Acquire(t)
  \/ SessionCreate(t)
  \/ SessionReturn(t)
  \/ \E c \in StatusCodes : PostReturns(t, c)
  \/ PostRaises(t)
  \/ Finally(t)
  \/ Close1(t)
  \/ Close2(t)
  \/ Close3(t)
  \/ Return(t)

Next ==
  \/ \E t \in Threads, k \in RecordKinds : Emit(t, k)
  \/ \E t \in Threads, k \in RecordKinds : NestedEmit(t, k)
  \/ \E t \in Threads : Step(t)

Spec == Init /\ [][Next]_vars

NextQ ==
  \/ \E t \in Threads, k \in RecordKinds : Log(t, k)
  \/ \E t \in Threads : Enqueue(t)
  \/ Dequeue
  \/ \E k \in RecordKinds : TransportLog(k)
  \/ \E t \in AllThreads : Step(t)
  \/ HandlerClose

SpecQ == Init /\ [][NextQ]_vars

\* LokiQueueHandler with a transport that does not log through the handler,
\* and NProducers application threads logging.
\* The listener is a thread of its own that the scheduler keeps running:
\* it takes the next record when there is one, and each step of its call of
\* emit is taken in the end (the POST returns or raises).
NextQF ==
  \/ \E t \in 1..NProducers, k \in RecordKinds : Log(t, k)
  \/ \E t \in 1..NProducers : Enqueue(t)
  \/ Dequeue
  \/ Step(Worker)
  \/ HandlerClose

SpecQF ==
  Init /\ [][NextQF]_vars /\ WF_vars(Dequeue) /\ WF_vars(Step(Worker))

\* ------------------------------------------- LokiHandler.__init__
\* const.emitter_ver
emitter_ver == "0"
\* LokiHandler.emitters: the emitter class registered under each version
emitters == ("0" :> "LokiEmitterV0") @@ ("1" :> "LokiEmitterV1")

\* `value or default`: None and the empty string are false.
Falsy(v) == v \in {NoneValue, ""}
Or(v, default) == IF Falsy(v) THEN default ELSE v

\* Tag values: plain strings, and a callable (lambda: 5) with what it returns.
Callables == {"lambda: 5"}
callable(v) == v \in Callables
Invoke(v) == "5"

\* Tag names used for default tags and record tags.
TagApp == <<"a", "p", "p">>
TagValue == <<"v">>
TagHyphen == <<"a", "-", "b">>
TagUnder == <<"a", "_", "b">>
TagBang == <<"!">>

\* The arguments tried for LokiHandler(url, tags, auth, version).
Versions == {NoneValue, "", "0", "1", "2"}
BasicAuthPair == "('username', 'password')"
Auths == {NoneValue, BasicAuthPair}
DefaultTags ==
  { <<>>,
    << <<TagApp, "x">> >>,
    << <<TagHyphen, "x">> >>,
    << <<TagBang, "x">> >>,
    << <<TagApp, "x">>, <<TagValue, "lambda: 5">> >> }

\* LokiEmitter.__init__(url, tags, headers, auth): as_json and
\* props_to_labels keep their defaults (False, []) in every emitter a
\* handler constructs.
LokiEmitter_init(cls, tags, headers, auth) ==
  [cls |-> cls, tags |-> tags, headers |-> Or(headers, EmptyDict),
   auth |-> auth, session |-> NoSession]

\* (variant: the callable-tag check for version "0" is missing)
LokiHandler_init_NoCallableCheck(tags, auth, version) ==
  LET ver == Or(version, emitter_ver)
  IN IF ver \notin DOMAIN emitters
       THEN [state |-> "ValueError", tags |-> tags, emitter |-> NoEmitter]
     ELSE [state |-> "ok", tags |-> tags,
           emitter |-> LokiEmitter_init(emitters[ver], tags, auth, NoneValue)]

\* LokiHandler.__init__: the handler it leaves, or ValueError. The emitter
\* is built by self.emitters[version](url, tags, auth): auth is the third
\* positional argument, which LokiEmitter.__init__ names `headers`, and its
\* own `auth` parameter keeps the default None.
LokiHandler_init(tags, auth, version) ==
  LET ver == Or(version, emitter_ver)
  IN IF ver = "0" /\ \E i \in 1..Len(tags) : callable(tags[i][2])
       THEN [state |-> "ValueError", tags |-> tags, emitter |-> NoEmitter]
     ELSE IF ver \notin DOMAIN emitters
       THEN [state |-> "ValueError", tags |-> tags, emitter |-> NoEmitter]
     ELSE [state |-> "ok", tags |-> tags,
           emitter |-> LokiEmitter_init(emitters[ver], tags, auth, NoneValue)]

\* ------------------------------------------------- records and tags
\* const.level_tag, const.logger_tag
level_tag == <<"s", "e", "v", "e", "r", "i", "t", "y">>
logger_tag == <<"l", "o", "g", "g", "e", "r">>
\* record.levelname.lower()
lower(levelname) ==
  CASE levelname = "WARNING" -> "warning"
    [] levelname = "ERROR" -> "error"
    [] levelname = "INFO" -> "info"
    [] OTHER -> levelname

\* @functools.lru_cache on format_label: the formatted name of every name
\* that occurs among the tags (a formatted name is formatted again by
\* LokiEmitterV0.build_labels).
TagNames ==
  {TagApp, TagValue, TagHyphen, TagUnder, TagBang, level_tag, logger_tag}
format_label_lru ==
  [n \in TagNames \cup {format_label(m) : m \in TagNames} |->
     format_label(n)]

\* What a record has in its `tags` attribute: nothing (the attribute is
\* absent), a dict, or a value that is not a mapping (a string).
NoTags == [is |-> "absent", items |-> <<>>]
TagDict(d) == [is |-> "dict", items |-> d]
InvalidTags == [is |-> "str", items |-> <<>>]
RecordTags ==
  { NoTags, InvalidTags,
    TagDict(<< <<TagApp, "y">> >>),
    TagDict(<< <<TagHyphen, "y">> >>),
    TagDict(<< <<TagUnder, "y">> >>),
    TagDict(<< <<TagBang, "y">> >>) }

\* logger.warning(msg, extra={"tags": ...}) on logger "svc": the LogRecord.
\* created is the time of the call; attrs are the entries that
\* TagMixin.prepare writes into record.__dict__.
LogRecord(n, tags) ==
  [id |-> n, name |-> "svc", levelname |-> "WARNING", lineno |-> "lineno 42",
   message |-> "Error occurred", created |-> n, tags |-> tags, attrs |-> <<>>]

\* for key, value in (...).items():
\*     if callable(value): value = value()
\*     record.__dict__[key] = value
RECURSIVE SetAttrs(_, _)
SetAttrs(attrs, items) ==
  IF items = <<>> THEN attrs
  ELSE SetAttrs(DictSet(attrs, items[1][1],
                        IF callable(items[1][2]) THEN Invoke(items[1][2])
                        ELSE items[1][2]),
                Tail(items))

\* TagMixin.prepare(record) for a handler with default tags htags (the base,
\* logging.Handler, has no prepare): the record it returns, or TypeError
\* from `self.tags | record.tags` when record.tags is not a mapping.
prepare(htags, record) ==
  LET tags == IF record.tags.is = "absent" THEN TagDict(<<>>)
              ELSE record.tags
  IN IF tags.is # "dict"
       THEN [raised |-> TRUE, record |-> [record EXCEPT !.tags = tags]]
     ELSE [raised |-> FALSE,
           record |-> [record EXCEPT
                         !.tags = tags,
                         !.attrs = SetAttrs(@, DictUnion(htags, tags.items))]]

\* for tag_name, tag_value in extra_tags.items():
\*     cleared_name = self.format_label(tag_name)
\*     if cleared_name: tags[cleared_name] = tag_value
RECURSIVE AddExtraTags(_, _)
AddExtraTags(tags, extra_tags) ==
  IF extra_tags = <<>> THEN tags
  ELSE LET cleared_name == format_label_lru[extra_tags[1][1]]
       IN AddExtraTags(IF cleared_name # <<>>
                         THEN DictSet(tags, cleared_name, extra_tags[1][2])
                         ELSE tags,
                       Tail(extra_tags))

\* LokiEmitter.build_tags: the default tags as they are (deepcopy gives a
\* callable back unchanged), the level and the logger name, then the
\* record's tags when they are a dict. props_to_labels is [], so the
\* comprehension over it gives {}.
build_tags(em, record) ==
  LET tags == DictSet(DictSet(em.tags, level_tag, lower(record.levelname)),
                      logger_tag, record.name)
      extra_tags == IF record.tags.is = "dict"
                      THEN DictUnion(<<>>, record.tags.items)
                      ELSE <<>>
  IN AddExtraTags(tags, extra_tags)

\* LokiEmitterV0.build_labels: one name="value" per tag, the name formatted;
\* the string is kept as the list of its <<name, value>> parts (no value
\* here has a double quote to escape).
build_labels(em, record) ==
  LET tags == build_tags(em, record)
  IN [i \in 1..Len(tags) |-> <<format_label_lru[tags[i][1]], tags[i][2]>>]

\* build_payload of LokiEmitterV0 and of LokiEmitterV1: one stream, with
\* its labels and one entry <<ts, line>>; the time stamp (record.created in
\* V0, time.time() in V1) is the time of the call. as_json is False.
build_payload(em, record, line) ==
  IF em.cls = "LokiEmitterV0"
    THEN [labels |-> build_labels(em, record),
          entries |-> << <<record.created, line>> >>]
    ELSE [labels |-> build_tags(em, record),
          entries |-> << <<record.created, line>> >>]

\* ------------------------------- one call at a time: what is sent
\* session.post raised instead of returning a response
TransportError == -1
PostOutcomes == StatusCodes \cup {TransportError}

\* json=payload: a callable among the label values cannot be serialised and
\* session.post raises.
Serialisable(payload) ==
  \A i \in 1..Len(payload.labels) : ~callable(payload.labels[i][2])

\* LokiEmitter.__call__(record, line) when no other call is running (the
\* guard is free): the payload, the session (created with
\* `auth = self.auth or None` when there is none), the request
\* session.post(url, json=payload, headers=self.headers), and the exception
\* the call ends with, for the outcome o of the POST.
LokiEmitter_call(em, record, line, o) ==
  LET payload == build_payload(em, record, line)
      sess == IF em.session.id = 0
                THEN [id |-> 1, auth |-> Or(em.auth, NoneValue)]
                ELSE em.session
  IN [emitter |-> [em EXCEPT !.session = sess],
      request |-> [json |-> payload, headers |-> em.headers,
                   auth |-> sess.auth],
      exc |-> IF o = TransportError \/ ~Serialisable(payload)
                THEN "Exception"
              ELSE IF ~IsSuccess(o) THEN "ValueError"
              ELSE "none"]

\* LokiEmitter.close
LokiEmitter_close(em) ==
  IF em.session.id # 0 THEN [em EXCEPT !.session = NoSession] ELSE em

\* Any arguments for LokiHandler(...).
InitP ==
  /\ InitDelivery
  /\ NoLabel
  /\ args \in [version : Versions, tags : DefaultTags, auth : Auths]
  /\ handler = NoHandler
  /\ fed = 0
  /\ nposts = 0
  /\ last = NoCall

\* handler = LokiHandler(url, tags, auth, version)
Construct ==
  /\ handler.state = "none"
  /\ handler' = LokiHandler_init(args.tags, args.auth, args.version)
  /\ UNCHANGED <<dvars, label, out, args, fed, nposts, last>>

\* self.emitter(record, record.lineno): the second argument
EmitLine(record) == record.lineno

\* handler.emit(record) for a record with the given tags; o is what the
\* POST does. prepare runs before the try block; an exception of the
\* emitter goes to handleError, which closes the emitter.
HandlerEmit(tags, o) ==
  /\ handler.state = "ok"
  /\ fed < MaxEmits
  /\ fed' = fed + 1
  /\ \E prep \in {prepare(handler.tags, LogRecord(fed + 1, tags))} :
       IF prep.raised
         THEN /\ last' = [rec |-> fed + 1, tags |-> tags, via |-> "handler",
                          outcome |-> o,
                          result |-> "TypeError", hooks |-> 0,
                          posted |-> FALSE, request |-> NoRequest]
              /\ UNCHANGED <<handler, nposts>>
         ELSE \E r \in {LokiEmitter_call(handler.emitter, prep.record,
                                         EmitLine(prep.record), o)} :
                /\ last' = [rec |-> fed + 1, tags |-> tags, via |-> "handler",
                          outcome |-> o,
                            result |-> IF r.exc = "none" THEN "ok"
                                       ELSE "handled",
                            hooks |-> IF r.exc = "none" THEN 0 ELSE 1,
                            posted |-> TRUE, request |-> r.request]
                /\ handler' = [handler EXCEPT !.emitter =
                                 IF r.exc = "none" THEN r.emitter
                                 ELSE LokiEmitter_close(r.emitter)]
                /\ nposts' = nposts + 1
  /\ UNCHANGED <<dvars, label, out, args>>

\* handler.emitter(record, line): the emitter called directly, as the tests
\* do, with the message as the line; an exception reaches the caller.
DirectCall(tags, o) ==
  /\ handler.state = "ok"
  /\ fed < MaxEmits
  /\ fed' = fed + 1
  /\ \E record \in {LogRecord(fed + 1, tags)} :
     \E r \in {LokiEmitter_call(handler.emitter, record, record.message, o)} :
        /\ last' = [rec |-> fed + 1, tags |-> tags, via |-> "emitter",
                    outcome |-> o,
                    result |-> IF r.exc = "none" THEN "ok" ELSE r.exc,
                    hooks |-> 0, posted |-> TRUE, request |-> r.request]
        /\ handler' = [handler EXCEPT !.emitter = r.emitter]
        /\ nposts' = nposts + 1
  /\ UNCHANGED <<dvars, label, out, args>>

NextP ==
  \/ Construct
  \/ \E tags \in RecordTags, o \in PostOutcomes : HandlerEmit(tags, o)
  \/ \E tags \in RecordTags, o \in PostOutcomes : DirectCall(tags, o)

SpecP == InitP /\ [][NextP]_vars

\* -------------------------------------------- format_label on its own
\* Any raw label name of at most MaxLen characters.
InitL ==
  /\ InitDelivery
  /\ NoContent
  /\ label \in Strings(MaxLen)
  /\ out = <<>>

\* format_label is applied to the raw name, then to its own result.
FormatLabel ==
  /\ Len(out) < MaxApply
  /\ out' = Append(out, format_label(IF out = <<>> THEN label
                                     ELSE out[Len(out)]))
  /\ UNCHANGED <<dvars, label, args, handler, fed, nposts, last>>

NextL == FormatLabel

SpecL == InitL /\ [][NextL]_vars

\* ================================================================ claims
\* Every frame on every stack, by position, and the frames that are done.
Pos == UNION {{<<t, i>> : i \in 1..Len(stack[t])} : t \in AllThreads}
Fr(p) == stack[p[1]][p[2]]
Terminal(f) == f.pc \in {"returned", "raised"}
\* A delivery: the guard is held, from payload build to its release.
InFlight(f) == f.pc \in {"session", "sessret", "post", "finally"}
\* A delivery that made its POST and failed (bad status or transport error).
DeliveryFailed(f) == f.posts > 0 /\ f.res \in {"ValueError", "Exception"}
\* The places that hold record r: frames, the queue, a producer's hands.
Holders(r) ==
  Cardinality({p \in Pos : Fr(p).rec = r})
  + Cardinality({i \in 1..Len(queue) : queue[i].id = r})
  + Cardinality({t \in AllThreads : pend[t].id = r})

\* C1: for one emitter and any interleaving of delivery calls from any
\* threads, re-entrant calls from inside a running POST included, at most
\* one delivery (payload build + POST) is in flight at any time.
C1_AtMostOneInFlight ==
  Cardinality({p \in Pos : InFlight(Fr(p))}) <= 1

\* A POST is running while its own thread's re-entrant call and another
\* thread's call have both been turned away.
C1_Witness ==
  \E t, u \in Threads :
    /\ t # u
    /\ Depth(t) = 2
    /\ stack[t][1].pc = "post"
    /\ stack[t][2].res = "dropped"
    /\ At(u, "returned")
    /\ Top(u).res = "dropped"

\* C2: a delivery attempt that starts while another delivery of the same
\* emitter is in progress returns at once, without waiting: the acquire
\* step can always be taken, and a dropped attempt has made no POST, has
\* reported no error (no exception, no handleError), has touched no session,
\* and its record is held nowhere but in the returning call.
C2_DroppedReturnsAtOnce ==
  /\ \A t \in AllThreads : At(t, "acquire") => ENABLED Acquire(t)
  /\ \A p \in Pos :
       Fr(p).res = "dropped" =>
         /\ Fr(p).pc = "returned"
         /\ Fr(p).posts = 0
         /\ Fr(p).hooks = 0
         /\ Fr(p).exc = "none"
         /\ Fr(p).sess = 0
         /\ Holders(Fr(p).rec) = 1

\* A call has been dropped and has returned while another thread's POST is
\* still running.
C2_Witness ==
  \E t, u \in Threads :
    /\ At(t, "post")
    /\ Depth(u) = 1
    /\ Top(u).pc = "returned"
    /\ Top(u).res = "dropped"
    /\ Top(u).posts = 0

\* C3: LokiHandler.emit(record) never raises into its caller, whatever fails
\* while preparing tags, building the payload or POSTing.
C3_EmitNeverRaises ==
  \A p \in Pos : Fr(p).pc # "raised"

\* C4: when a delivery made through LokiHandler.emit has failed, then by the
\* time emit is done the error hook was invoked exactly once for the record,
\* the session the delivery used has been closed, and the emitter no longer
\* holds it, so that the next delivery attempt gets a new session object.
C4_FailureResetsSession ==
  \A p \in Pos :
    (Terminal(Fr(p)) /\ DeliveryFailed(Fr(p))) =>
      /\ Fr(p).hooks = 1
      /\ closes[Fr(p).sess] >= 1
      /\ (session = 0 \/ session > Fr(p).sess)

\* C5: a delivery succeeds if and only if the response status code equals
\* 204; with any other status code, a missing one included, the emitter call
\* ends with ValueError after exactly one POST.
C5_SuccessIffStatus204 ==
  \A p \in Pos :
    /\ (Fr(p).res = "ok") =>
         (Fr(p).got = "status" /\ Fr(p).code = success_response_code
          /\ Fr(p).posts = 1)
    /\ (Fr(p).res # "none" /\ Fr(p).got = "status"
        /\ Fr(p).code # success_response_code) =>
         (Fr(p).res = "ValueError" /\ Fr(p).posts = 1)

\* One call has succeeded on status 204 and another has ended with
\* ValueError on a response without a status.
C5_Witness ==
  \E t, u \in Threads :
    /\ At(t, "returned")
    /\ Top(t).res = "ok"
    /\ Top(t).code = success_response_code
    /\ At(u, "returned")
    /\ Top(u).res = "ValueError"
    /\ Top(u).code = NoStatus

\* C6: a failed delivery is never resubmitted: no record is the subject of
\* more than one POST, and a record is held in at most one place (queue,
\* producer, call), so that once the failed call returns nothing holds it.
C6_NoResubmission ==
  /\ \A p \in Pos : Fr(p).posts <= 1
  /\ \A r \in 1..nrec : Holders(r) <= 1

\* The listener's delivery has failed after its one POST and its emit is
\* done, while a later record waits in the queue.
C6_Witness ==
  /\ Depth(Worker) = 1
  /\ Terminal(Top(Worker))
  /\ DeliveryFailed(Top(Worker))
  /\ Top(Worker).posts = 1
  /\ Holders(Top(Worker).rec) = 1
  /\ queue # <<>>

\* C7: with LokiQueueHandler the records are handed to the delivery side in
\* the order they were enqueued, whichever producers enqueued them.
C7_FifoOrder ==
  /\ Len(started) <= Len(enqd)
  /\ \A i \in 1..Len(started) : started[i] = enqd[i]

\* Two records, enqueued in the reverse of the order they were logged in,
\* have both been handed to emit.
C7_Witness ==
  /\ Len(started) >= 2
  /\ enqd[1] > enqd[2]
  /\ started[2] = enqd[2]

\* C8: with LokiQueueHandler a producer thread only prepares and enqueues:
\* it never enters LokiHandler.emit or the emitter, its enqueue can always
\* be taken whatever the endpoint does, and every POST runs on the listener.
C8_OnlyWorkerPosts ==
  /\ \A t \in Threads : Depth(t) = 0
  /\ \A t \in Threads : pend[t] # NoRecord => ENABLED Enqueue(t)
  /\ \A p \in Pos : Fr(p).posts > 0 => p[1] = Worker

\* The listener is inside a POST while a producer enqueues behind a record
\* already waiting.
C8_Witness ==
  /\ At(Worker, "post")
  /\ queue # <<>>
  /\ \E t \in Threads : pend[t] # NoRecord

\* C9: when the handler is closed, every record still in the queue is
\* delivered (in one final flush) before close is done and the listener
\* ends; none is left behind.
C9_ShutdownDrainsQueue ==
  hClosed => \A i \in 1..Len(queue) : queue[i].id \notin atClose

\* C10: after the handler's close there is no live session and no running
\* listener thread.
C10_CloseReleasesResources ==
  hClosed => (session = 0 /\ ~workerAlive)

\* The labels of the latest request, and the names among them.
SentLabels == last.request.json.labels
SentNames == {SentLabels[i][1] : i \in 1..Len(SentLabels)}
SentEntries == last.request.json.entries

\* C11: 5 records given in quick succession to a handler whose batch buffer
\* has capacity 5 produce exactly one POST, whose single stream carries all
\* 5 entries in the order they were given, and no POST is made before the
\* fifth record has arrived.
C11_FiveRecordsOnePost ==
  /\ fed < 5 => nposts = 0
  /\ fed = 5 =>
       /\ nposts = 1
       /\ Len(SentEntries) = 5
       /\ \A i \in 1..Len(SentEntries) : SentEntries[i][1] = i

\* C12: when a default tag name d and a record tag name e have the same
\* formatted key, the delivered stream has exactly one label of that key and
\* its value is the record's, in both wire variants.
C12_RecordTagOverrides ==
  (last.posted /\ last.tags.is = "dict") =>
    \A i \in 1..Len(handler.emitter.tags), j \in 1..Len(last.tags.items) :
      LET key == format_label(last.tags.items[j][1])
          hits == {n \in 1..Len(SentLabels) : SentLabels[n][1] = key}
      IN (key # <<>> /\ format_label(handler.emitter.tags[i][1]) = key) =>
           /\ Cardinality(hits) = 1
           /\ \A n \in hits : SentLabels[n][2] = last.tags.items[j][2]

\* C13: a tag whose formatted key is empty is left out without an error: no
\* payload of either variant has a label with an empty name, or a label
\* made from a name that formats to the empty string, whether the tag is a
\* default tag or a tag of the record.
C13_EmptyKeyOmitted ==
  last.posted =>
    \A n \in 1..Len(SentLabels) :
      /\ SentLabels[n][1] # <<>>
      /\ format_label(SentLabels[n][1]) # <<>>

\* C14: a record whose `tags` is not a mapping is handled without any
\* error, by the emitter called directly and by LokiHandler.emit alike: the
\* record is posted, its labels are the default tags plus severity and
\* logger (by formatted name), no exception leaves the call, and when the
\* endpoint answers 204 to a payload that can be sent, the error hook is not
\* invoked.
C14_NonMappingTagsIgnored ==
  (last.via # "none" /\ last.tags.is = "str") =>
    /\ last.posted
    /\ last.result # "TypeError"
    /\ {format_label(n) : n \in SentNames} =
         {format_label(n) : n \in DictKeys(handler.emitter.tags)
                                    \cup {level_tag, logger_tag}}
    /\ (last.outcome = success_response_code
        /\ Serialisable(last.request.json)) =>
         (last.result = "ok" /\ last.hooks = 0)

\* The version the constructor is to use: the one given, or the default
\* const.emitter_ver when none is given (None, or an empty string).
SelectedVersion ==
  IF args.version \in {NoneValue, ""} THEN "0" ELSE args.version
ConfigurationError ==
  \/ SelectedVersion \notin {"0", "1"}
  \/ SelectedVersion = "0" /\
       \E i \in 1..Len(args.tags) : args.tags[i][2] \in Callables

\* C15: LokiHandler(...) fails with ValueError, creating no emitter, exactly
\* when the selected version is not a registered key or it is "0"
\* (explicitly or by default) and some default tag value is callable;
\* otherwise it succeeds with the emitter class registered for the version.
C15_ConstructorErrors ==
  handler.state # "none" =>
    /\ handler.state = "ValueError" <=> ConfigurationError
    /\ ConfigurationError => handler.emitter = NoEmitter
    /\ ~ConfigurationError =>
         /\ handler.state = "ok"
         /\ handler.emitter.cls =
              (IF SelectedVersion = "0" THEN "LokiEmitterV0"
               ELSE "LokiEmitterV1")

\* The constructor has failed for the default version with a callable tag.
C15_Witness ==
  /\ args.version = NoneValue
  /\ \E i \in 1..Len(args.tags) : args.tags[i][2] \in Callables
  /\ handler.state = "ValueError"
  /\ handler.emitter = NoEmitter

\* C16: with a version "1" handler with default tags {"app": "x"}, a
\* WARNING record of logger "svc" emitted through the handler gives the
\* stream mapping {"severity": "warning", "logger": "svc", "app": "x"} and
\* values[0][1] is the formatted message text of the record.
C16_VariantBPayload ==
  (/\ last.via = "handler"
   /\ last.posted
   /\ last.tags.is = "absent"
   /\ args.version = "1"
   /\ args.tags = << <<TagApp, "x">> >>) =>
    /\ {SentLabels[i] : i \in 1..Len(SentLabels)} =
         {<<level_tag, "warning">>, <<logger_tag, "svc">>, <<TagApp, "x">>}
    /\ Len(SentLabels) = 3
    /\ SentEntries[1][2] = "Error occurred"

\* C17: the basic-auth pair given to LokiHandler is the credential of every
\* request: every session the emitter creates, also one created again after
\* an error, has it as its auth, and the pair is in no other field of a
\* request (such as the headers).
C17_AuthOnEverySession ==
  /\ handler.emitter.session.id # 0 =>
       handler.emitter.session.auth = args.auth
  /\ last.posted =>
       /\ last.request.auth = args.auth
       /\ args.auth # NoneValue => last.request.headers # args.auth

\* C18: a callable default tag under key k is resolved by calling it at
\* emit time: every payload built for a record has under k the value the
\* callable returned, and no payload has the callable itself as a value.
C18_CallableTagsResolved ==
  (last.via = "handler" /\ last.posted) =>
    /\ \A i \in 1..Len(handler.tags) :
         callable(handler.tags[i][2]) =>
           \E n \in 1..Len(SentLabels) :
             /\ SentLabels[n][1] = handler.tags[i][1]
             /\ SentLabels[n][2] = Invoke(handler.tags[i][2])
    /\ \A n \in 1..Len(SentLabels) : ~callable(SentLabels[n][2])

\* The characters [A-Za-z0-9_], and what the rule makes of one character.
AsciiLetters ==
  {"a", "b", "c", "d", "e", "f", "g", "h", "i", "j", "k", "l", "m",
   "n", "o", "p", "q", "r", "s", "t", "u", "v", "w", "x", "y", "z",
   "A", "B", "C", "D", "E", "F", "G", "H", "I", "J", "K", "L", "M",
   "N", "O", "P", "Q", "R", "S", "T", "U", "V", "W", "X", "Y", "Z"}
AsciiDigits == {"0", "1", "2", "3", "4", "5", "6", "7", "8", "9"}
WordChars == AsciiLetters \cup AsciiDigits \cup {"_"}
CharImage(c) ==
  IF c \in {"'", "\""} THEN <<>>
  ELSE IF c \in {" ", ".", "-"} THEN <<"_">>
  ELSE IF c \in WordChars THEN <<c>>
  ELSE <<>>
RECURSIVE EachCharImage(_)
EachCharImage(s) ==
  IF s = <<>> THEN <<>> ELSE CharImage(Head(s)) \o EachCharImage(Tail(s))

\* C19: for every raw label string, format_label returns the string got by
\* removing apostrophes and double quotes, turning each space, period and
\* hyphen into an underscore, and then dropping every character outside
\* [A-Za-z0-9_]; the result has only characters of [A-Za-z0-9_].
C19_FormatLabelRule ==
  Len(out) >= 1 =>
    /\ out[1] = EachCharImage(label)
    /\ \A i \in 1..Len(out[1]) : out[1][i] \in WordChars

\* A name with a quote, a hyphen and a character that is dropped has been
\* formatted to a single underscore.
C19_Witness ==
  /\ label = <<"'", "-", "!">>
  /\ Len(out) >= 1
  /\ out[1] = <<"_">>

\* C20: format_label is idempotent: format_label(format_label(s)) equals
\* format_label(s) for every string s.
C20_FormatLabelIdempotent ==
  Len(out) >= 2 => out[2] = out[1]

\* format_label has been applied twice to a name it changes into a
\* non-empty one.
C20_Witness ==
  /\ Len(out) = 2
  /\ out[1] # label
  /\ out[1] # <<>>
  /\ \E i \in 1..Len(label) : label[i] = " "

\* C21: the emitter holds at most one session at a time, created lazily by
\* the first delivery that needs it and reused by later deliveries until
\* close() is called; close() closes the held session exactly once and
\* leaves the emitter with no session. So: no session exists before the
\* first call; the held session is open unless a close() is between closing
\* it and letting go of it; a POST goes to the held session unless close()
\* was called on it meanwhile; no session is closed twice; and a session
\* the emitter no longer holds has been closed.
C21_OneLazySession ==
  /\ nrec = 0 => (session = 0 /\ closes = <<>>)
  /\ (session # 0 /\ \A p \in Pos : Fr(p).pc # "close3") =>
       closes[session] = 0
  /\ \A p \in Pos :
       Fr(p).pc = "post" => (Fr(p).sess = session \/ closes[Fr(p).sess] >= 1)
  /\ \A s \in 1..Len(closes) : closes[s] <= 1
  /\ \A s \in 1..Len(closes) : s # session => closes[s] = 1

\* C22: the delivery guard is released whenever a delivery attempt ends, by
\* success, by an unexpected status code, by an exception of the transport
\* or by an exception while the payload is built: the guard is held only
\* while some attempt is between acquiring it and its finally clause, so
\* when every attempt has ended the guard is free and an attempt that
\* starts then is not dropped.
C22_GuardAlwaysReleased ==
  /\ lock => \E p \in Pos : InFlight(Fr(p))
  /\ \A t \in AllThreads :
       (At(t, "acquire") /\ \A p \in Pos : ~InFlight(Fr(p))) => TryLock(lock)
  /\ \A p \in Pos :
       (Fr(p).res \in {"ok", "ValueError", "Exception"}) => ~InFlight(Fr(p))

\* An attempt has ended with an exception from building the payload, and a
\* later record's attempt on another thread holds the guard and is posting.
C22_Witness ==
  \E t, u \in Threads :
    /\ At(t, "returned")
    /\ Top(t).res = "Exception"
    /\ Top(t).posts = 0
    /\ Top(t).hooks = 1
    /\ At(u, "post")
    /\ Top(u).rec > Top(t).rec
    /\ lock

\* The listener's call of emit for record r is done.
InQueue(r) == \E i \in 1..Len(queue) : queue[i].id = r
WorkerDone(r) ==
  /\ Depth(Worker) = 1
  /\ Top(Worker).rec = r
  /\ Terminal(Top(Worker))

====
